---- MODULE Spec2Model ----
(***************************************************************************)
(* Model of mill.c, the Logic Mill engine: a single-tape Turing machine    *)
(* over a circular buffer (mill_read_tape, mill_run, mill_print_tape), the *)
(* lexer and symbol table that build its program (mill_parse_program,      *)
(* mill_parse_instruction, symtable_insert, parse_headmove) and the part   *)
(* of main that chains them.                                               *)
(*                                                                         *)
(* Scaling.  The source fixes MILL_TAPE_SIZE = 0x100000 = 2^20 cells and   *)
(* MILL_STEPS_MAX = 1000000.  The state machine below keeps the tape size  *)
(* a power of two, 2^TapeBits, and a small step cap; the arithmetic of the *)
(* head move is also evaluated at the source's size (REAL_TAPE_SIZE).      *)
(* MILL_INSTR_MAX = 0x10000 is scaled to a small limit as well; the limits *)
(* of the symbol table and of a name's length keep the source's values.    *)
(***************************************************************************)
EXTENDS Integers, Naturals, Sequences, FiniteSets, TLC

\* ------------------------------------------------------------------ bounds
TapeBits == 2          \* log2 of the modelled tape size (20 in the source)
MILL_STEPS_MAX == 3    \* the step cap (1000000 in the source)
MaxInstr == 2          \* longest instruction list drawn by Init
MaxTape == 2           \* longest tape text drawn by Init
MILL_INSTR_MAX == 2    \* the instruction limit (65536 in the source)

\* ------------------------------------------------------- program constants
REAL_TAPE_SIZE == 1048576   \* #define MILL_TAPE_SIZE 0x100000
SIZE_BITS == 64             \* width of size_t, the type of pos and size
HeadMove_none == 0
HeadMove_left == 76         \* 'L'
HeadMove_right == 82        \* 'R'
syminit == 0                \* id of INIT, the first symbol inserted
symhalt == 1                \* id of HALT, the second symbol inserted
NUL == 0                    \* L'\0', the blank cell and string terminator
NL == 10                    \* L'\n'
SLASH == 47                 \* L'/'
UNDERSCORE == 95            \* L'_'
MILL_STATES_MAX == 1024     \* #define MILL_STATES_MAX 1024
MILL_STATE_MAX == 32        \* #define MILL_STATE_MAX 32

RECURSIVE Pow2(_)
Pow2(k) == IF k = 0 THEN 1 ELSE 2 * Pow2(k - 1)

\* tape->size as main sets it: the number of elements of tape->buf
MILL_TAPE_SIZE == Pow2(TapeBits)

\* code points used by the modelled inputs: 'a', 'b'
TapeChars == {97, 98}

\* --------------------------------------------------------------- variables
VARIABLES
    prog,         \* _Program.instructions[0 .. instr_count-1], as a sequence
    tape_file,    \* the characters of the tape source
    tape_off,     \* how many of them have been read
    buf,          \* _Tape.buf[0 .. size-1]; index size is _Tape._null
    tape_pos,     \* _Tape.pos
    pos,          \* mill_run: size_t pos
    state,        \* mill_run: size_t state
    t,            \* mill_run: loop counter t
    prev,         \* mill_run: size_t prev, pos at the start of the step
    c,            \* mill_run: wchar_t c, the cell read at the start of the step
    steps,        \* main: size_t steps, set through *steps
    outcome,      \* how mill_run ended: the return path taken
    pc,           \* position of main
    res,          \* main: int res, the process exit code once pc = "exit"
    out,          \* the characters written to the output file
    seam_iters,   \* mill_print_tape: iterations of the first loop
    start_iters,  \* mill_print_tape: iterations of the second loop
    h_state,      \* history: state at the start of the last step
    fired,        \* history: index of the instruction the last step fired, 0 if none
    nexec,        \* history: number of instructions executed so far
    prog_file,    \* the characters of the program source
    prog_off,     \* how many of them have been read
    symtable,     \* _Program.symtable: the names in id order, and datasize
    diag,         \* the last message given to parse_error
    interned,     \* history: the names handed to symtable_insert, in order
    phases        \* history: the phases of main entered so far, in order

vars == <<prog, tape_file, tape_off, buf, tape_pos, pos, state, t, prev, c, steps,
          outcome, pc, res, out, seam_iters, start_iters, h_state, fired, nexec,
          prog_file, prog_off, symtable, diag, interned, phases>>

parse_vars == <<prog_file, prog_off, symtable, diag, interned>>

\* ------------------------------------------------------------- arithmetic
\* 2^k mod n for n <= 2^20, computed without leaving the range of the
\* model's integers (eight doublings at a time while k allows)
RECURSIVE Pow2Mod(_, _)
Pow2Mod(k, n) ==
    IF k = 0 THEN 1 % n
    ELSE IF k >= 8 THEN (256 * Pow2Mod(k - 8, n)) % n
    ELSE (2 * Pow2Mod(k - 1, n)) % n

HeadAdvanceSigned(p, dp, size) ==
    \* the remainder of a signed sum, truncating toward zero as C's % does
    IF p + dp < 0 THEN 0 - ((0 - (p + dp)) % size) ELSE (p + dp) % size

\* x % size evaluated in size_t: x is first reduced modulo 2^SIZE_BITS (a
\* negative x stands for 2^SIZE_BITS + x), then modulo size
SizeMod(x, size) ==
    IF x >= 0 THEN x % size
    ELSE (Pow2Mod(SIZE_BITS, size) + (x % size)) % size

\* mill_run: pos = (pos + dp) % tape->size, dp an int converted to size_t
HeadAdvance(p, dp, size) == SizeMod(p + dp, size)

\* mill_print_tape: start = (start - 1) % tape->size
SeamBack(start, size) == SizeMod(start - 1, size)

\* mill_print_tape: start = (start + 1) % tape->size
StartForward(start, size) == SizeMod(start + 1, size)

\* ----------------------------------------------------------------- engine
Instrs(moves) ==
    [state_in : {syminit, symhalt}, char_in : {NUL, 97},
     state_out : {syminit, symhalt}, char_out : {NUL, 97}, move : moves]

Programs(moves) == UNION {[1..n -> Instrs(moves)] : n \in 0..MaxInstr}

TapeTexts == UNION {[1..n -> TapeChars] : n \in 0..MaxTape}

FirstMatchSkip(p, s, ch, i) ==
    \* the scan started one instruction late
    IF \E j \in 2..Len(p) : p[j].state_in = s /\ p[j].char_in = ch
    THEN CHOOSE j \in 2..Len(p) :
            /\ p[j].state_in = s /\ p[j].char_in = ch
            /\ \A k \in 2..(j-1) : ~(p[k].state_in = s /\ p[k].char_in = ch)
    ELSE 0

FirstMatchLast(p, s, ch, i) ==
    \* the scan without its break: the last matching instruction wins
    IF \E j \in 1..Len(p) : p[j].state_in = s /\ p[j].char_in = ch
    THEN CHOOSE j \in 1..Len(p) :
            /\ p[j].state_in = s /\ p[j].char_in = ch
            /\ \A k \in (j+1)..Len(p) : ~(p[k].state_in = s /\ p[k].char_in = ch)
    ELSE 0

\* the inner for loop of mill_run from index i on: the index (1-based) of the
\* instruction whose body runs before the break, 0 when the loop runs out
RECURSIVE FirstMatch(_, _, _, _)
FirstMatch(p, s, ch, i) ==
    IF i > Len(p) THEN 0
    ELSE IF p[i].state_in = s /\ p[i].char_in = ch THEN i
    ELSE FirstMatch(p, s, ch, i + 1)

EmptyBuf == [i \in 0..MILL_TAPE_SIZE |-> NUL]

\* ----------------------------------------------------------------- fgetws
FgetwsLenOver(text, n, k) ==
    \* a reader that stores up to n characters, not n - 1
    LET ends == {i \in 1..Len(text) : text[i] = NL \/ i = n \/ i = Len(text)}
    IN IF ends = {} THEN 0 ELSE CHOOSE i \in ends : \A j \in ends : i <= j

\* number of characters fgetws(buf, n, file) stores: at most n-1, stopping
\* after a newline or at the end of the file
RECURSIVE FgetwsLen(_, _, _)
FgetwsLen(text, n, k) ==
    IF k >= n - 1 \/ k >= Len(text) THEN k
    ELSE IF text[k + 1] = NL THEN k + 1
    ELSE FgetwsLen(text, n, k + 1)

FgetwsStrip(b, text, n) ==
    \* a reader that drops the line terminator
    LET k == FgetwsLen(text, n, 0)
        m == IF k > 0 /\ text[k] = NL THEN k - 1 ELSE k
    IN [i \in DOMAIN b |-> IF i < m THEN text[i + 1] ELSE IF i = m THEN NUL ELSE b[i]]

\* the buffer after a successful fgetws: the characters, then a terminator
Fgetws(b, text, n) ==
    LET k == FgetwsLen(text, n, 0)
    IN [i \in DOMAIN b |-> IF i < k THEN text[i + 1] ELSE IF i = k THEN NUL ELSE b[i]]

\* ------------------------------------------------------------------ render
RECURSIVE SeamScanDo(_, _, _, _)
SeamScanDo(b, size, start, i) ==
    \* the first loop stepping back before it tests the cell
    IF i >= size THEN [start |-> start, iters |-> i]
    ELSE IF b[SeamBack(start, size)] = NUL
         THEN [start |-> SeamBack(start, size), iters |-> i + 1]
    ELSE SeamScanDo(b, size, SeamBack(start, size), i + 1)

\* first loop of mill_print_tape: back from index 0 to a blank cell; start
\* is where it stops, iters the number of times its body ran
RECURSIVE SeamScan(_, _, _, _)
SeamScan(b, size, start, i) ==
    IF i >= size THEN [start |-> start, iters |-> i]
    ELSE IF b[start] = NUL THEN [start |-> start, iters |-> i + 1]
    ELSE SeamScan(b, size, SeamBack(start, size), i + 1)

RECURSIVE StartScanOver(_, _, _, _)
StartScanOver(b, size, start, i) ==
    \* the second loop with bound i <= size
    IF i > size THEN [start |-> start, iters |-> i]
    ELSE IF b[start] # NUL THEN [start |-> start, iters |-> i + 1]
    ELSE StartScanOver(b, size, StartForward(start, size), i + 1)

\* second loop of mill_print_tape: forward to a non-blank cell
RECURSIVE StartScan(_, _, _, _)
StartScan(b, size, start, i) ==
    IF i >= size THEN [start |-> start, iters |-> i]
    ELSE IF b[start] # NUL THEN [start |-> start, iters |-> i + 1]
    ELSE StartScan(b, size, StartForward(start, size), i + 1)

\* fputws(&tape->buf[from]): the cells from index from up to the first NUL;
\* the cell after buf[size-1] is _Tape._null, never written, so NUL
RECURSIVE Fputws(_, _)
Fputws(b, from) ==
    IF b[from] = NUL THEN << >> ELSE <<b[from]>> \o Fputws(b, from + 1)

RenderNoWrap(b, size) ==
    \* a render that lacks the second fputws
    LET seam == SeamScan(b, size, 0, 0)
        st == StartScan(b, size, seam.start, 0)
    IN [text |-> Fputws(b, st.start) \o <<NL>>,
        seam_iters |-> seam.iters, start_iters |-> st.iters]

\* mill_print_tape with every write succeeding: the characters written and
\* the iterations each loop made
Render(b, size) ==
    LET seam == SeamScan(b, size, 0, 0)
        st == StartScan(b, size, seam.start, 0)
        first == Fputws(b, st.start)
        second == IF st.start > 0 /\ b[0] # NUL THEN Fputws(b, 0) ELSE << >>
    IN [text |-> first \o second \o <<NL>>,
        seam_iters |-> seam.iters, start_iters |-> st.iters]

\* ------------------------------------------------------------- mill_run
StepCountOff(tt) == tt
    \* the count without the + 1

\* *steps = t + 1 on the halt, stall and invalid-move returns
StepCount(tt) == tt + 1

LoopContinuesOver(tt) == tt <= MILL_STEPS_MAX
    \* the loop test with <= for <

\* the test of the for (t ...) loop
LoopContinues(tt) == tt < MILL_STEPS_MAX

IsHeadMoveAny(m) == TRUE
    \* the switch without its default branch

\* the switch on instr->move: case HeadMove_left, case HeadMove_right
IsHeadMove(m) == m \in {HeadMove_left, HeadMove_right}

IsHaltNever(s) == FALSE
    \* the loop without its halt test

\* if (state == halt), halt = prog->symhalt
IsHalt(s) == s = symhalt

AfterRunPrint(r) == "print_tape"
    \* a main that prints whatever mill_run returned

\* main after mill_run: if (res != 0) return res; else mill_print_tape
AfterRun(r) == IF r # 0 THEN "exit" ELSE "print_tape"

TimeoutStepsOver == MILL_STEPS_MAX + 1
    \* the count one too high

\* *steps = MILL_STEPS_MAX after the loop
TimeoutSteps == MILL_STEPS_MAX

\* ------------------------------------------------------------------ parser
\* iswspace for the characters a program text is written with
IsSpace(ch) == ch \in {9, 10, 11, 12, 13, 32}

\* struct MillInstr data = {}
NoInstr ==
    [state_in |-> 0, char_in |-> NUL, state_out |-> 0, char_out |-> NUL,
     move |-> HeadMove_none]

\* sizeof(symtable->symdata) / sizeof(symtable->symdata[0])
SymDataMax == MILL_STATES_MAX * (MILL_STATE_MAX + 1)

\* *program = (struct MillProgram) {} leaves this symbol table
EmptyTable == [symbols |-> << >>, datasize |-> 0]

parse_headmove_any(text) ==
    \* a check of the length alone
    IF Len(text) = 1
    THEN [res |-> 0, head |-> text[1]]
    ELSE [res |-> 1, head |-> HeadMove_none]

\* parse_headmove: res 0 and the move, or res 1
parse_headmove(text) ==
    IF Len(text) # 1
    THEN [res |-> 1, head |-> HeadMove_none]
    ELSE IF text[1] \in {HeadMove_left, HeadMove_right}
         THEN [res |-> 0, head |-> text[1]]
         ELSE [res |-> 1, head |-> HeadMove_none]

symtable_insert_append(tab, symbol) ==
    \* an insert that never looks the name up
    [res |-> 0, sid |-> Len(tab.symbols), diag |-> "none",
     tab |-> [symbols |-> Append(tab.symbols, symbol),
              datasize |-> tab.datasize + Len(symbol) + 1]]

\* symtable_insert: the id of the name, appended when it is new
symtable_insert(tab, symbol) ==
    LET hits == {i \in 1..Len(tab.symbols) : tab.symbols[i] = symbol}
    IN IF hits # {}
       THEN [res |-> 0, diag |-> "none", tab |-> tab,
             sid |-> (CHOOSE i \in hits : \A j \in hits : i <= j) - 1]
       ELSE IF Len(tab.symbols) >= MILL_STATES_MAX
       THEN [res |-> -1, diag |-> "symbol table limit reached", tab |-> tab,
             sid |-> 0]
       ELSE IF tab.datasize + Len(symbol) + 1 > SymDataMax
       THEN [res |-> -1, diag |-> "symbols buffer exhausted", tab |-> tab,
             sid |-> 0]
       ELSE [res |-> 0, diag |-> "none", sid |-> Len(tab.symbols),
             tab |-> [symbols |-> Append(tab.symbols, symbol),
                      datasize |-> tab.datasize + Len(symbol) + 1]]

\* toksize == 2 && wcscmp(token, L"//") == 0
IsComment(tok) == tok = <<SLASH, SLASH>>

CommentTailNever(tok) == FALSE
    \* a lexer that knows no comment glued to the move

\* toksize >= 3 && token[toksize-2] == L'/' && token[toksize-1] == L'/'
CommentTail(tok) ==
    /\ Len(tok) >= 3
    /\ tok[Len(tok) - 1] = SLASH
    /\ tok[Len(tok)] = SLASH

SymbolOfLiteral(tok) == tok[1]
    \* a lexer that takes the underscore as it is written

\* data.char_in = token[0]; if (data.char_in == L'_') data.char_in = L'\0'
SymbolOf(tok) == IF tok[1] = UNDERSCORE THEN NUL ELSE tok[1]

\* the locals of mill_parse_instruction before its loop; ret is 0 until a
\* return inside the loop, seen lists the names handed to symtable_insert
Lexer0(tab) ==
    [st |-> 0, token |-> << >>, data |-> NoInstr, tab |-> tab,
     seen |-> << >>, ret |-> 0, diag |-> "none"]

\* parse_error(...); return -1
Fail(L, msg) == [L EXCEPT !.ret = -1, !.diag = msg]

\* token[toksize++] = c; state = st
Push(L, ch, st) == [L EXCEPT !.token = Append(@, ch), !.st = st]

\* cases 1 and 5 on whitespace: intern the token as data.state_in/state_out
InternToken(L, field, st) ==
    LET r == symtable_insert(L.tab, L.token)
    IN IF r.res # 0
       THEN [L EXCEPT !.ret = -1, !.diag = r.diag,
                      !.seen = Append(@, L.token)]
       ELSE [L EXCEPT !.tab = r.tab, !.token = << >>, !.st = st,
                      !.data = [@ EXCEPT ![field] = r.sid],
                      !.seen = Append(@, L.token)]

\* cases 3 and 7: a symbol is one character long
TakeSymbol(L, ch, field, st) ==
    IF IsSpace(ch)
    THEN [L EXCEPT !.data = [@ EXCEPT ![field] = SymbolOf(L.token)],
                   !.token = << >>, !.st = st]
    ELSE Fail(L, "symbol is too long")

\* case 9: the move token
TakeMove(L, ch) ==
    IF IsSpace(ch)
    THEN LET h == parse_headmove(L.token)
         IN IF h.res # 0
            THEN Fail(L, "invalid move instruction")
            ELSE [L EXCEPT !.data = [@ EXCEPT !.move = h.head],
                           !.token = << >>,
                           !.st = IF ch = NL THEN 100 ELSE 10]
    ELSE IF Len(L.token) >= MILL_STATE_MAX
    THEN Fail(L, "symbol is too long")
    ELSE LET tok == Append(L.token, ch)
         IN IF CommentTail(tok)
            THEN LET cut == SubSeq(tok, 1, Len(tok) - 2)
                     h == parse_headmove(cut)
                 IN IF h.res # 0
                    THEN Fail([L EXCEPT !.token = cut],
                              "invalid move instruction")
                    ELSE [L EXCEPT !.data = [@ EXCEPT !.move = h.head],
                                   !.token = cut, !.st = 12]
            ELSE [L EXCEPT !.token = tok]

\* one turn of the loop of mill_parse_instruction: switch (state) on c
LexChar(L, ch) ==
    CASE L.st \in {0, 2, 4, 6, 8} ->
            IF ~IsSpace(ch) THEN Push(L, ch, L.st + 1) ELSE L
      [] L.st = 1 ->
            IF IsSpace(ch) THEN InternToken(L, "state_in", 2)
            ELSE IF Len(L.token) >= MILL_STATE_MAX
            THEN Fail(L, "symbol is too long")
            ELSE IF IsComment(Append(L.token, ch))
            THEN [L EXCEPT !.token = << >>, !.st = 20]
            ELSE [L EXCEPT !.token = Append(@, ch)]
      [] L.st = 3 -> TakeSymbol(L, ch, "char_in", 4)
      [] L.st = 5 ->
            IF IsSpace(ch) THEN InternToken(L, "state_out", 6)
            ELSE IF Len(L.token) >= MILL_STATE_MAX
            THEN Fail(L, "symbol is too long")
            ELSE [L EXCEPT !.token = Append(@, ch)]
      [] L.st = 7 -> TakeSymbol(L, ch, "char_out", 8)
      [] L.st = 9 -> TakeMove(L, ch)
      [] L.st = 10 ->
            IF ch = NL THEN [L EXCEPT !.st = 100]
            ELSE IF ch = SLASH THEN Push(L, ch, 11)
            ELSE IF ~IsSpace(ch) THEN Fail(L, "unexpected token")
            ELSE L
      [] L.st = 11 ->
            IF ch = SLASH THEN [L EXCEPT !.st = 12]
            ELSE Fail([L EXCEPT !.token = Append(@, ch)], "unexpected token")
      [] L.st = 12 -> IF ch = NL THEN [L EXCEPT !.st = 100] ELSE L
      [] L.st = 20 -> IF ch = NL THEN [L EXCEPT !.st = 0] ELSE L
      [] OTHER -> Fail(L, "invalid state")

\* for (; state < 100; ) { c = fgetwc(file); if (c == WEOF) break; ... }
RECURSIVE LexLoop(_, _, _)
LexLoop(L, text, off) ==
    IF L.ret # 0 \/ L.st >= 100 \/ off >= Len(text)
    THEN [L |-> L, off |-> off]
    ELSE LexLoop(LexChar(L, text[off + 1]), text, off + 1)

AfterLoopStrict(st) ==
    \* a lexer that wants a newline after the move
    CASE st \in {0, 20} -> "clean"
      [] st \in 1..9 -> "expecting"
      [] st = 11 -> "unexpected"
      [] st \in {10, 12, 100} -> "instr"
      [] OTHER -> "invalid"

\* the switch (state) after the loop
AfterLoop(st) ==
    CASE st \in {0, 20} -> "clean"
      [] st \in 1..8 -> "expecting"
      [] st = 9 -> "move"
      [] st = 11 -> "unexpected"
      [] st \in {10, 12, 100} -> "instr"
      [] OTHER -> "invalid"

\* what mill_parse_instruction returns: n, *instr and the message printed
LexEnd(L) ==
    LET k == AfterLoop(L.st)
        h == parse_headmove(L.token)
    IN IF L.ret # 0
       THEN [n |-> -1, instr |-> NoInstr, diag |-> L.diag]
       ELSE CASE k = "clean" -> [n |-> 0, instr |-> NoInstr, diag |-> "none"]
              [] k = "expecting" ->
                    [n |-> -1, instr |-> NoInstr, diag |-> "expecting a token"]
              [] k = "move" ->
                    IF h.res # 0
                    THEN [n |-> -1, instr |-> NoInstr,
                          diag |-> "invalid move instruction"]
                    ELSE [n |-> 1, diag |-> "none",
                          instr |-> [L.data EXCEPT !.move = h.head]]
              [] k = "unexpected" ->
                    [n |-> -1, instr |-> NoInstr, diag |-> "unexpected token"]
              [] k = "instr" -> [n |-> 1, instr |-> L.data, diag |-> "none"]
              [] OTHER -> [n |-> -1, instr |-> NoInstr, diag |-> "invalid state"]

\* mill_parse_instruction on the text from offset off with table tab
mill_parse_instruction(text, off, tab) ==
    LET r == LexLoop(Lexer0(tab), text, off)
        e == LexEnd(r.L)
    IN [n |-> e.n, instr |-> e.instr, diag |-> e.diag, off |-> r.off,
        tab |-> r.L.tab, seen |-> r.L.seen, st |-> r.L.st]

InstrFullOver(n) == n > MILL_INSTR_MAX
    \* a limit test that lets one more in

\* program->instr_count >= MILL_INSTR_MAX
InstrFull(n) == n >= MILL_INSTR_MAX

\* the names main's program starts with
INIT_NAME == <<73, 78, 73, 84>>
HALT_NAME == <<72, 65, 76, 84>>

\* mill_parse_program before its loop: INIT and HALT are interned first
InitTable ==
    symtable_insert(symtable_insert(EmptyTable, INIT_NAME).tab, HALT_NAME).tab

\* ------------------------------------------------------------------ states
InitCommon ==
    /\ tape_off = 0
    /\ tape_pos = 0 /\ pos = 0 /\ state = syminit /\ t = 0 /\ prev = 0 /\ c = NUL
    /\ steps = 0 /\ outcome = "None" /\ res = 0 /\ out = << >>
    /\ seam_iters = 0 /\ start_iters = 0
    /\ h_state = syminit /\ fired = 0 /\ nexec = 0

\* the program file is not part of the specification: nothing is read from it
NoProgFile ==
    /\ prog_file = << >> /\ prog_off = 0
    /\ symtable = InitTable /\ diag = "none" /\ interned = << >>

\* the phase is added to the history when it is entered
Enter(ph) ==
    IF Len(phases) > 0 /\ phases[Len(phases)] = ph THEN phases
    ELSE Append(phases, ph)

\* main after a successful mill_parse_program: every move is L or R
Init ==
    /\ prog \in Programs({HeadMove_left, HeadMove_right})
    /\ tape_file \in TapeTexts
    /\ buf = EmptyBuf
    /\ pc = "read_tape"
    /\ InitCommon /\ NoProgFile /\ phases = << >>

\* mill_read_tape as main calls it; on success control goes to next
ReadTape(next) ==
    /\ pc = "read_tape"
    /\ LET rest == SubSeq(tape_file, tape_off + 1, Len(tape_file))
           k == FgetwsLen(rest, MILL_TAPE_SIZE, 0)
       IN IF k = 0
          THEN \* fgetws returns NULL: nothing was read
               /\ res' = 1 /\ pc' = "exit"
               /\ UNCHANGED <<buf, tape_off, outcome>>
          ELSE /\ buf' = Fgetws(buf, rest, MILL_TAPE_SIZE)
               /\ tape_off' = tape_off + k
               /\ res' = 0 /\ pc' = next
               /\ outcome' = IF next = "run" THEN "Running" ELSE outcome
    \* mill_run's prologue: pos = tape->pos, state = prog->syminit
    /\ pos' = tape_pos /\ state' = syminit /\ h_state' = syminit
    /\ phases' = Enter("load")
    /\ UNCHANGED <<prog, tape_file, tape_pos, t, prev, c, steps, out,
                   seam_iters, start_iters, fired, nexec>>
    /\ UNCHANGED parse_vars

\* main: mill_read_tape, then mill_run
MainReadTape == ReadTape("run")

\* one iteration of the for (t ...) loop of mill_run
RunStep ==
    /\ pc = "run" /\ LoopContinues(t)
    /\ prev' = pos /\ c' = buf[pos] /\ h_state' = state
    /\ LET i == FirstMatch(prog, state, buf[pos], 1)
       IN /\ fired' = i
          /\ IF i = 0
             THEN \* no instruction ran: pos == prev
                  /\ tape_pos' = pos /\ steps' = StepCount(t)
                  /\ outcome' = "Stalled" /\ res' = -1 /\ pc' = AfterRun(-1)
                  /\ UNCHANGED <<buf, state, pos, t, nexec>>
             ELSE LET instr == prog[i]
                      dp == IF instr.move = HeadMove_left THEN -1 ELSE 1
                      npos == HeadAdvance(pos, dp, MILL_TAPE_SIZE)
                  IN /\ buf' = [buf EXCEPT ![pos] = instr.char_out]
                     /\ state' = instr.state_out
                     /\ nexec' = nexec + 1
                     /\ IF ~IsHeadMove(instr.move)
                        THEN /\ tape_pos' = pos /\ steps' = StepCount(t)
                             /\ outcome' = "InvalidHeadMove"
                             /\ res' = -1 /\ pc' = AfterRun(-1)
                             /\ UNCHANGED <<pos, t>>
                        ELSE /\ pos' = npos
                             /\ IF IsHalt(instr.state_out)
                                THEN /\ tape_pos' = npos /\ steps' = StepCount(t)
                                     /\ outcome' = "Halted"
                                     /\ res' = 0 /\ pc' = AfterRun(0)
                                     /\ UNCHANGED t
                                ELSE IF npos = pos
                                THEN \* if (pos == prev) after the break
                                     /\ tape_pos' = npos /\ steps' = StepCount(t)
                                     /\ outcome' = "Stalled"
                                     /\ res' = -1 /\ pc' = AfterRun(-1)
                                     /\ UNCHANGED t
                                ELSE /\ t' = t + 1
                                     /\ UNCHANGED <<tape_pos, steps, outcome, res, pc>>
    /\ phases' = Enter("run")
    /\ UNCHANGED <<prog, tape_file, tape_off, out, seam_iters, start_iters>>
    /\ UNCHANGED parse_vars

\* mill_run after the loop ran out
RunTimeout ==
    /\ pc = "run" /\ ~LoopContinues(t)
    /\ tape_pos' = pos /\ steps' = TimeoutSteps
    /\ outcome' = "TimedOut" /\ res' = 1 /\ pc' = AfterRun(1)
    /\ phases' = Enter("run")
    /\ UNCHANGED <<prog, tape_file, tape_off, buf, pos, state, t, prev, c, out,
                   seam_iters, start_iters, h_state, fired, nexec>>
    /\ UNCHANGED parse_vars

\* main: mill_print_tape, every write succeeding
PrintTape ==
    /\ pc = "print_tape"
    /\ LET r == Render(buf, MILL_TAPE_SIZE)
       IN /\ out' = out \o r.text
          /\ seam_iters' = r.seam_iters
          /\ start_iters' = r.start_iters
    /\ res' = 0 /\ pc' = "exit"
    /\ phases' = Enter("render")
    /\ UNCHANGED <<prog, tape_file, tape_off, buf, tape_pos, pos, state, t,
                   prev, c, steps, outcome, h_state, fired, nexec>>
    /\ UNCHANGED parse_vars

Next == MainReadTape \/ RunStep \/ RunTimeout \/ PrintTape

\* main from mill_read_tape on, for a program the parser built
Spec == Init /\ [][Next]_vars

\* the engine on any instruction list, whatever built it: a move may be
\* HeadMove_none
InitRaw ==
    /\ prog \in Programs({HeadMove_left, HeadMove_right, HeadMove_none})
    /\ tape_file \in UNION {[1..n -> {97}] : n \in 1..MaxTape}
    /\ buf = EmptyBuf
    /\ pc = "read_tape"
    /\ InitCommon /\ NoProgFile /\ phases = << >>

SpecRaw == InitRaw /\ [][Next]_vars

\* load then render, no step in between: tape texts of every length up to
\* the buffer's, newlines anywhere
LoadTexts == UNION {[1..n -> TapeChars \cup {NL}] : n \in 0..MILL_TAPE_SIZE}

InitLoad ==
    /\ prog = << >>
    /\ tape_file \in LoadTexts
    /\ buf = EmptyBuf
    /\ pc = "read_tape"
    /\ InitCommon /\ NoProgFile /\ phases = << >>

LoadReadTape == ReadTape("print_tape")

NextLoad == LoadReadTape \/ PrintTape

SpecLoad == InitLoad /\ [][NextLoad]_vars

\* render alone, on every buffer over blank, 'a', 'b'
Buffers ==
    {b \in [0..MILL_TAPE_SIZE -> {NUL} \cup TapeChars] : b[MILL_TAPE_SIZE] = NUL}

InitRender ==
    /\ prog = << >>
    /\ tape_file = << >>
    /\ buf \in Buffers
    /\ pc = "print_tape"
    /\ InitCommon /\ NoProgFile /\ phases = << >>

NextRender == PrintTape

SpecRender == InitRender /\ [][NextRender]_vars

\* ------------------------------------------------------------ whole main
\* one turn of the loop of mill_parse_program; done tells that it returned
mill_parse_step(text, off, tab, instrs) ==
    LET r == mill_parse_instruction(text, off, tab)
    IN IF r.n = 0
       THEN [done |-> TRUE, res |-> 0, prog |-> instrs, off |-> r.off,
             tab |-> r.tab, diag |-> "none", seen |-> r.seen]
       ELSE IF r.n # 1
       THEN [done |-> TRUE, res |-> r.n, prog |-> instrs, off |-> r.off,
             tab |-> r.tab, diag |-> r.diag, seen |-> r.seen]
       ELSE IF InstrFull(Len(instrs))
       THEN [done |-> TRUE, res |-> 1, prog |-> instrs, off |-> r.off,
             tab |-> r.tab, diag |-> "too many instructions", seen |-> r.seen]
       ELSE [done |-> FALSE, res |-> 0, prog |-> Append(instrs, r.instr),
             off |-> r.off, tab |-> r.tab, diag |-> "none", seen |-> r.seen]

\* mill_parse_program on a whole text: the loop run to its return
RECURSIVE ParseLoop(_, _, _, _)
ParseLoop(text, off, tab, instrs) ==
    LET r == mill_parse_step(text, off, tab, instrs)
    IN IF r.done THEN r ELSE ParseLoop(text, r.off, r.tab, r.prog)

mill_parse_program(text) == ParseLoop(text, 0, InitTable, << >>)

\* main: mill_parse_program, one instruction at a time
ParseInstruction ==
    /\ pc = "parse"
    /\ LET r == mill_parse_step(prog_file, prog_off, symtable, prog)
       IN /\ prog' = r.prog /\ prog_off' = r.off /\ symtable' = r.tab
          /\ interned' = interned \o r.seen
          /\ diag' = IF r.diag = "none" THEN diag ELSE r.diag
          /\ res' = r.res
          /\ pc' = IF ~r.done THEN "parse"
                   ELSE IF r.res # 0 THEN "exit" ELSE "read_tape"
    /\ phases' = Enter("parse")
    /\ UNCHANGED <<prog_file, tape_file, tape_off, buf, tape_pos, pos, state,
                   t, prev, c, steps, outcome, out, seam_iters, start_iters,
                   h_state, fired, nexec>>

\* lines that parse, drawn anywhere in a program text: instructions (one
\* of them wrapped) and a comment
FrontLines ==
    {
      \* "INIT a HALT b R\n"
      <<73, 78, 73, 84, 32, 97, 32, 72, 65, 76, 84, 32, 98, 32, 82, 10>>,
      \* "INIT a INIT _ R // c\n"
      <<73, 78, 73, 84, 32, 97, 32, 73, 78, 73, 84, 32, 95, 32, 82, 32, 47,
        47, 32, 99, 10>>,
      \* "// A B\n"
      <<47, 47, 32, 65, 32, 66, 10>>,
      \* " B b\n\tA _ R \n"
      <<32, 66, 32, 98, 10, 9, 65, 32, 95, 32, 82, 32, 10>>}

\* lines that parse, drawn as the last line only
TailLines ==
    {
      \* "INIT _ INIT _ L\n\n"
      <<73, 78, 73, 84, 32, 95, 32, 73, 78, 73, 84, 32, 95, 32, 76, 10, 10>>,
      \* "HALT a A a L//c\n"
      <<72, 65, 76, 84, 32, 97, 32, 65, 32, 97, 32, 76, 47, 47, 99, 10>>,
      \* "\n"
      <<10>>}

\* lines the parser stops at
BadLines ==
    {
      \* "A a A a X\n"
      <<65, 32, 97, 32, 65, 32, 97, 32, 88, 10>>,
      \* "A a A a RR//x\n"
      <<65, 32, 97, 32, 65, 32, 97, 32, 82, 82, 47, 47, 120, 10>>,
      \* "A a A a X//x\n"
      <<65, 32, 97, 32, 65, 32, 97, 32, 88, 47, 47, 120, 10>>,
      \* "A a A a R x\n"
      <<65, 32, 97, 32, 65, 32, 97, 32, 82, 32, 120, 10>>,
      \* "A a A a R /x\n"
      <<65, 32, 97, 32, 65, 32, 97, 32, 82, 32, 47, 120, 10>>,
      \* "A ab A a R\n"
      <<65, 32, 97, 98, 32, 65, 32, 97, 32, 82, 10>>,
      \* "INIT a\n// c\nR\n"
      <<73, 78, 73, 84, 32, 97, 10, 47, 47, 32, 99, 10, 82, 10>>}

RECURSIVE Concat(_)
Concat(ls) == IF ls = << >> THEN << >> ELSE Head(ls) \o Concat(Tail(ls))

\* the program texts drawn: up to MILL_INSTR_MAX lines that parse, then a
\* line of either kind, the text ending anywhere in that last line
ProgTexts ==
    UNION {{SubSeq(Concat(front) \o last, 1, Len(Concat(front)) + k) :
                k \in 0..Len(last)} :
           <<front, last>> \in
                (UNION {[1..n -> FrontLines] : n \in 0..MILL_INSTR_MAX})
                \X (FrontLines \cup TailLines \cup BadLines)}

\* the tape texts main is run on
MainTapes == {<< >>, <<97>>}

\* main once the files are open: mill_parse_program has interned INIT, HALT
InitMain ==
    /\ prog_file \in ProgTexts
    /\ tape_file \in MainTapes
    /\ prog = << >> /\ prog_off = 0
    /\ symtable = InitTable /\ diag = "none" /\ interned = << >>
    /\ buf = EmptyBuf
    /\ pc = "parse" /\ phases = << >>
    /\ InitCommon

NextMain == ParseInstruction \/ MainReadTape \/ RunStep \/ RunTimeout \/ PrintTape

SpecMain == InitMain /\ [][NextMain]_vars

\* whole program texts: up to MILL_INSTR_MAX lines that parse and one more
SymTexts ==
    {Concat(front) \o last :
        <<front, last>> \in
            (UNION {[1..n -> FrontLines] : n \in 0..MILL_INSTR_MAX})
            \X (FrontLines \cup TailLines)}

\* tape texts with a literal underscore and a newline among their characters
SymTapes == UNION {[1..n -> {97, UNDERSCORE, NL}] : n \in 1..MaxTape}

\* main on whole program texts and on tapes that hold an underscore or a
\* newline
InitSym ==
    /\ prog_file \in SymTexts
    /\ tape_file \in SymTapes
    /\ prog = << >> /\ prog_off = 0
    /\ symtable = InitTable /\ diag = "none" /\ interned = << >>
    /\ buf = EmptyBuf
    /\ pc = "parse" /\ phases = << >>
    /\ InitCommon

SpecSym == InitSym /\ [][NextMain]_vars

\* ------------------------------------------------------------ properties
\* a step of mill_run has been taken, so prev, c, h_state and fired are its
StepTaken == nexec > 0 \/ outcome = "Stalled"

\* instruction j is on the (state, symbol) pair the last step started from
Matches(j) == prog[j].state_in = h_state /\ prog[j].char_in = c

SamePair(j, k) ==
    prog[j].state_in = prog[k].state_in /\ prog[j].char_in = prog[k].char_in

\* the displacement the specification gives a move: Left -1, Right +1
MoveDelta(m) == IF m = HeadMove_left THEN -1 ELSE 1

Terminal == {"Halted", "Stalled", "TimedOut", "InvalidHeadMove"}

\* C1 - first-match determinism: the instruction a step fires is the
\* lowest-indexed one on the current (state, symbol under the head), its
\* write and state change are the ones applied, and an instruction with an
\* earlier instruction on the same pair never fires.
C1_FirstMatch ==
    StepTaken =>
        LET M == {j \in 1..Len(prog) : Matches(j)}
        IN /\ (M = {}) => fired = 0
           /\ (M # {}) =>
                /\ fired \in M
                /\ \A j \in M : fired <= j
                /\ buf[prev] = prog[fired].char_out
                /\ state = prog[fired].state_out
           /\ \A j \in 1..Len(prog) :
                (\E k \in 1..(j - 1) : SamePair(k, j)) => fired # j

C1_Witness ==
    /\ StepTaken /\ Len(prog) = 2 /\ fired = 1
    /\ SamePair(1, 2)
    /\ prog[1].char_out # prog[2].char_out
    /\ prog[1].state_out # prog[2].state_out

\* C2 - halt: when the fired instruction has state_out = HALT the run ends
\* Halted right after that instruction's write and head move, and the step
\* count is the number of instructions executed, t + 1.
C2_Halt ==
    /\ (StepTaken /\ fired # 0 /\ prog[fired].state_out = symhalt) =>
            /\ outcome = "Halted"
            /\ pc \in {"print_tape", "exit"}
            /\ buf[prev] = prog[fired].char_out
            /\ tape_pos = (prev + MoveDelta(prog[fired].move)) % MILL_TAPE_SIZE
            /\ pos = tape_pos
            /\ steps = nexec
            /\ steps = t + 1
    /\ outcome = "Halted" => (fired # 0 /\ prog[fired].state_out = symhalt)

C2_Witness ==
    /\ outcome = "Halted" /\ steps = 1 /\ nexec = 1
    /\ c = 97 /\ buf[0] = NUL /\ tape_pos = 1
    /\ prog[fired].move = HeadMove_right

\* C3 - stall: the run ends Stalled exactly when no instruction is on the
\* current (state, symbol); the step count is one more than the number of
\* instructions executed, and the stalling step leaves the tape, the head
\* and the state as the last executed instruction left them (the head
\* position is the one the step started from).
C3_StallState ==
    /\ outcome = "Stalled" =>
            /\ fired = 0
            /\ \A j \in 1..Len(prog) : ~Matches(j)
            /\ steps = nexec + 1
            /\ steps = t + 1
            /\ pos = prev /\ tape_pos = prev
            /\ state = h_state /\ buf[prev] = c
            /\ pc = "exit" /\ out = << >>
    /\ (StepTaken /\ \A j \in 1..Len(prog) : ~Matches(j)) => outcome = "Stalled"

C3_StallStep ==
    (outcome # "Stalled" /\ outcome' = "Stalled") =>
        /\ buf' = buf /\ pos' = pos /\ tape_pos' = pos
        /\ state' = state /\ nexec' = nexec

C3_Stall == [](C3_StallState) /\ [][C3_StallStep]_vars

C3_Witness ==
    /\ outcome = "Stalled" /\ nexec = 2 /\ steps = 3
    /\ tape_pos = MILL_TAPE_SIZE - 2

\* C4 - timeout: the run ends TimedOut exactly when MILL_STEPS_MAX
\* instructions were executed and none entered HALT; the count is then
\* MILL_STEPS_MAX and tape and head are those of the last instruction.  A run
\* whose MILL_STEPS_MAX-th instruction enters HALT ends Halted.
C4_TimeoutState ==
    /\ nexec <= MILL_STEPS_MAX /\ t <= MILL_STEPS_MAX
    /\ steps <= MILL_STEPS_MAX
    /\ outcome = "TimedOut" =>
            /\ nexec = MILL_STEPS_MAX /\ steps = MILL_STEPS_MAX
            /\ state # symhalt /\ fired # 0
            /\ buf[prev] = prog[fired].char_out
            /\ pos = (prev + MoveDelta(prog[fired].move)) % MILL_TAPE_SIZE
            /\ tape_pos = pos
    /\ (nexec = MILL_STEPS_MAX /\ state # symhalt) =>
            \/ outcome = "TimedOut"
            \/ (outcome = "Running" /\ pc = "run" /\ t = MILL_STEPS_MAX)
    /\ (nexec = MILL_STEPS_MAX /\ state = symhalt) =>
            (outcome = "Halted" /\ steps = MILL_STEPS_MAX)

C4_TimeoutStep ==
    /\ (pc = "run" /\ t = MILL_STEPS_MAX) =>
            (outcome' = "TimedOut" /\ buf' = buf /\ nexec' = nexec)
    /\ (outcome # "TimedOut" /\ outcome' = "TimedOut") =>
            (nexec = MILL_STEPS_MAX /\ state # symhalt)

C4_Timeout == [](C4_TimeoutState) /\ [][C4_TimeoutStep]_vars

C4_Witness ==
    /\ outcome = "TimedOut" /\ steps = MILL_STEPS_MAX /\ nexec = MILL_STEPS_MAX

\* reached as well: the MILL_STEPS_MAX-th instruction halts
C4_HaltAtCap ==
    /\ outcome = "Halted" /\ steps = MILL_STEPS_MAX /\ nexec = MILL_STEPS_MAX

\* C5 - termination and exclusive outcomes: a run leaves Running after at
\* most MILL_STEPS_MAX steps and ends in one of Halted, Stalled, TimedOut,
\* InvalidHeadMove; a step stays in Running or enters one terminal outcome,
\* and nothing is executed once an outcome is reached.  Termination is
\* stated by its variant: while Running a step can always be taken, every
\* step that stays in Running raises t by one, and t never passes the cap.
C5_State ==
    /\ outcome \in {"None", "Running"} \cup Terminal
    /\ (outcome = "Running") <=> (pc = "run")
    /\ t <= MILL_STEPS_MAX /\ nexec <= MILL_STEPS_MAX
    /\ outcome = "Running" => ENABLED (RunStep \/ RunTimeout)
    /\ outcome \in Terminal => ~ENABLED (RunStep \/ RunTimeout)

C5_Step ==
    /\ outcome = "Running" => outcome' \in {"Running"} \cup Terminal
    /\ (outcome = "Running" /\ outcome' = "Running") =>
            (t' = t + 1 /\ nexec' = nexec + 1)
    /\ outcome \in Terminal =>
            /\ outcome' = outcome /\ nexec' = nexec /\ steps' = steps
            /\ buf' = buf /\ tape_pos' = tape_pos /\ state' = state /\ t' = t

C5_Termination == [](C5_State) /\ [][C5_Step]_vars

C5_Witness ==
    /\ outcome = "InvalidHeadMove" /\ nexec = 2 /\ pc = "exit"

\* C6 - wraparound: the head stays in [0, N); a fired Left or Right move
\* puts it at (prev + d) mod N, so Left from 0 lands on N-1 and Right from
\* N-1 on 0; at the source's size 2^20 the size_t computation equals the
\* mathematical one.
RealProbes == {0, 1, 2, REAL_TAPE_SIZE - 2, REAL_TAPE_SIZE - 1}

C6_Wraparound ==
    /\ pos \in 0..(MILL_TAPE_SIZE - 1)
    /\ tape_pos \in 0..(MILL_TAPE_SIZE - 1)
    /\ (StepTaken /\ fired # 0) =>
            /\ pos = (prev + MoveDelta(prog[fired].move)) % MILL_TAPE_SIZE
            /\ (prev = 0 /\ prog[fired].move = HeadMove_left)
                    => pos = MILL_TAPE_SIZE - 1
            /\ (prev = MILL_TAPE_SIZE - 1 /\ prog[fired].move = HeadMove_right)
                    => pos = 0
    /\ \A p \in RealProbes :
            /\ HeadAdvance(p, -1, REAL_TAPE_SIZE) = (p - 1) % REAL_TAPE_SIZE
            /\ HeadAdvance(p, 1, REAL_TAPE_SIZE) = (p + 1) % REAL_TAPE_SIZE
    /\ HeadAdvance(0, -1, REAL_TAPE_SIZE) = REAL_TAPE_SIZE - 1
    /\ HeadAdvance(REAL_TAPE_SIZE - 1, 1, REAL_TAPE_SIZE) = 0

C6_Witness ==
    /\ nexec = 2 /\ fired # 0
    /\ prev = MILL_TAPE_SIZE - 1 /\ prog[fired].move = HeadMove_right
    /\ pos = 0

\* ---------------------------------------------------- render properties
\* mill_print_tape has returned: it always ends its output with a newline
Rendered == pc = "exit" /\ out # << >>

\* the non-blank cells of buf[0 .. N-1] are exactly the len cells that
\* follow index s circularly
IsRun(s, len) ==
    \A i \in 0..(MILL_TAPE_SIZE - 1) :
        (buf[i] # NUL) <=> ((i - s) % MILL_TAPE_SIZE < len)

\* the len cells from index s on, in circular order
CellsFrom(s, len) == [k \in 1..len |-> buf[(s + k - 1) % MILL_TAPE_SIZE]]

\* C7 - render of a wrapped tape: when the non-blank cells form one
\* contiguous circular run of fewer than N cells, wherever it lies, render
\* writes exactly the cells of the run in logical left-to-right order, each
\* once, then one newline.
C7_RenderWrapped ==
    Rendered =>
        \A s \in 0..(MILL_TAPE_SIZE - 1), len \in 0..(MILL_TAPE_SIZE - 1) :
            IsRun(s, len) => out = CellsFrom(s, len) \o <<NL>>

C7_Witness ==
    /\ Rendered /\ IsRun(MILL_TAPE_SIZE - 1, 3)
    /\ buf[MILL_TAPE_SIZE - 1] = 98 /\ buf[0] = 97 /\ buf[1] = 98
    /\ out = <<98, 97, 98, NL>>

\* C8 - round trip: a tape text of one line of fewer than N non-blank code
\* points (its newline, if it has one, last) that is loaded and rendered
\* with no step in between comes out unchanged, followed by the newline
\* render appends.
OneLine(text) ==
    /\ Len(text) \in 1..(MILL_TAPE_SIZE - 1)
    /\ \A i \in 1..Len(text) : text[i] # NUL
    /\ \A i \in 1..(Len(text) - 1) : text[i] # NL

C8_RoundTrip ==
    OneLine(tape_file) =>
        /\ pc = "print_tape" =>
                \A i \in 0..(MILL_TAPE_SIZE - 1) :
                    buf[i] = IF i < Len(tape_file) THEN tape_file[i + 1] ELSE NUL
        /\ pc = "exit" =>
                (out = tape_file \o <<NL>> /\ res = 0 /\ nexec = 0)

C8_Witness ==
    /\ pc = "exit" /\ nexec = 0
    /\ tape_file = <<97, 98, 97>> /\ out = <<97, 98, 97, NL>>

\* the written content is a part of la cells from index s, one blank cell,
\* and a part of lb cells, in circular order, with blank cells around it
InteriorBlank(s, la, lb) ==
    /\ la >= 1 /\ lb >= 1 /\ la + lb + 1 < MILL_TAPE_SIZE
    /\ \A i \in 0..(MILL_TAPE_SIZE - 1) :
        (buf[i] # NUL) <=>
            LET k == (i - s) % MILL_TAPE_SIZE
            IN k < la \/ (k > la /\ k <= la + lb)

Layouts ==
    {l \in (0..(MILL_TAPE_SIZE - 1)) \X (1..MILL_TAPE_SIZE) \X (1..MILL_TAPE_SIZE) :
        InteriorBlank(l[1], l[2], l[3])}

\* the content logically before and after the interior blank
Before(l) == CellsFrom(l[1], l[2])
After(l) == CellsFrom((l[1] + l[2] + 1) % MILL_TAPE_SIZE, l[3])

\* index 0 is the interior blank cell or a cell of the part after it
ZeroAtOrAfterBlank(l) ==
    LET k == (0 - l[1]) % MILL_TAPE_SIZE
    IN k >= l[2] /\ k <= l[2] + l[3]

\* C9 as stated - interior-blank truncation wherever the blank cell lies:
\* the output is the content logically before the blank cell.
C9_Original ==
    Rendered => \A l \in Layouts : out = Before(l) \o <<NL>>

\* C9 as amended - render emits one side of an interior blank cell: the
\* content logically before it, unless index 0 is that blank cell or lies in
\* the content after it; then the output is the content logically after the
\* blank cell and the content before it is dropped.
C9_Amended ==
    Rendered =>
        \A l \in Layouts :
            IF ZeroAtOrAfterBlank(l)
            THEN out = After(l) \o <<NL>>
            ELSE out = Before(l) \o <<NL>>

C9_Witness ==
    /\ Rendered /\ <<MILL_TAPE_SIZE - 1, 1, 1>> \in Layouts
    /\ buf[MILL_TAPE_SIZE - 1] = 97 /\ buf[0] = NUL /\ buf[1] = 98
    /\ out = <<98, NL>>

\* the truncating case: the blank cell right of index 0
C9_TruncationReached ==
    /\ Rendered /\ <<0, 1, 1>> \in Layouts
    /\ buf[0] = 97 /\ buf[1] = NUL /\ buf[2] = 98
    /\ out = <<97, NL>>

\* C10 - all-blank render: with every cell blank, render ends after at most
\* N iterations of each scan, reports no error and writes an empty string
\* and one newline.
AllBlank == \A i \in 0..(MILL_TAPE_SIZE - 1) : buf[i] = NUL

C10_AllBlank ==
    /\ pc = "print_tape" => ENABLED PrintTape
    /\ (pc = "exit" /\ outcome = "Halted" /\ AllBlank) =>
            /\ out = <<NL>>
            /\ res = 0
            /\ seam_iters \in 1..MILL_TAPE_SIZE
            /\ start_iters \in 1..MILL_TAPE_SIZE

C10_Witness ==
    /\ pc = "exit" /\ outcome = "Halted" /\ AllBlank
    /\ prog = <<[state_in |-> syminit, char_in |-> 97, state_out |-> symhalt,
                 char_out |-> NUL, move |-> HeadMove_left]>>
    /\ tape_file = <<97>> /\ steps = 1
    /\ tape_pos = MILL_TAPE_SIZE - 1
    /\ out = <<NL>>

\* ------------------------------------------------------- later properties
\* the part of the text load takes: up to and with the first newline, the
\* whole text when it has none, and never more than N - 1 code points
LineLen(text) ==
    LET nls == {i \in 1..Len(text) : text[i] = NL}
        whole == IF nls = {} THEN Len(text)
                 ELSE CHOOSE i \in nls : \A j \in nls : i <= j
    IN IF whole > MILL_TAPE_SIZE - 1 THEN MILL_TAPE_SIZE - 1 ELSE whole

Loaded == pc = "print_tape" \/ (pc = "exit" /\ out # << >>)

\* C17 - load: the first line of the tape source, at most N-1 code points,
\* its newline included when it has one, is copied to the buffer from index
\* 0; every cell after it is blank and the head is at 0; when there is
\* nothing to read load fails and nothing else happens.
C17_Load ==
    /\ Loaded =>
            /\ Len(tape_file) > 0
            /\ \A i \in 0..(MILL_TAPE_SIZE - 1) :
                    buf[i] = IF i < LineLen(tape_file)
                             THEN tape_file[i + 1] ELSE NUL
            /\ tape_pos = 0 /\ tape_off = LineLen(tape_file)
    /\ (pc = "exit" /\ Len(tape_file) = 0) =>
            (res = 1 /\ out = << >> /\ buf = EmptyBuf /\ tape_off = 0)
    /\ (pc = "exit" /\ Len(tape_file) > 0) => Loaded

C17_Witness ==
    /\ pc = "print_tape" /\ tape_file = <<97, NL, 98>>
    /\ buf[0] = 97 /\ buf[1] = NL /\ buf[2] = NUL /\ tape_pos = 0

\* reached as well: a line longer than the buffer is cut at N - 1
C17_CutReached ==
    /\ pc = "print_tape" /\ Len(tape_file) = MILL_TAPE_SIZE
    /\ \A i \in 1..Len(tape_file) : tape_file[i] # NL
    /\ buf[MILL_TAPE_SIZE - 2] # NUL /\ buf[MILL_TAPE_SIZE - 1] = NUL

\* reached as well: nothing to read
C17_FailReached == pc = "exit" /\ tape_file = << >> /\ res = 1

\* C19 - defensive InvalidHeadMove: when the first matching instruction has
\* a move that is neither Left nor Right the run ends at once with
\* InvalidHeadMove and count t + 1, the head where it was and nothing more
\* executed; the instruction's symbol_out is in the cell under the head and
\* every other cell is as it was.
C19_State ==
    /\ (StepTaken /\ fired # 0 /\ prog[fired].move \notin {HeadMove_left, HeadMove_right}) =>
            /\ outcome = "InvalidHeadMove"
            /\ steps = t + 1 /\ steps = nexec
            /\ pos = prev /\ tape_pos = prev
            /\ buf[prev] = prog[fired].char_out
            /\ pc = "exit" /\ out = << >>
            /\ ~ENABLED RunStep
    /\ outcome = "InvalidHeadMove" =>
            (fired # 0 /\ prog[fired].move \notin {HeadMove_left, HeadMove_right})

C19_Step ==
    (outcome # "InvalidHeadMove" /\ outcome' = "InvalidHeadMove") =>
        /\ pos' = pos /\ tape_pos' = pos
        /\ \A i \in 0..(MILL_TAPE_SIZE - 1) : i # pos => buf'[i] = buf[i]
        /\ nexec' = nexec + 1

C19_InvalidHeadMove == [](C19_State) /\ [][C19_Step]_vars

C19_Witness ==
    /\ outcome = "InvalidHeadMove" /\ steps = 2 /\ nexec = 2
    /\ prog[fired].move = HeadMove_none
    /\ c # prog[fired].char_out /\ buf[prev] = prog[fired].char_out

\* the names of a sequence in the order they first occur, after those of acc
RECURSIVE FirstSeen(_, _)
FirstSeen(names, acc) ==
    IF names = << >> THEN acc
    ELSE IF \E i \in 1..Len(acc) : acc[i] = Head(names)
         THEN FirstSeen(Tail(names), acc)
         ELSE FirstSeen(Tail(names), Append(acc, Head(names)))

\* a name no program text drawn contains
FreshName == <<90, 90>>

\* C11 - interning: the names of the table are pairwise distinct; INIT has
\* id 0 and HALT id 1 whatever the text says; the other names have the ids
\* 2, 3, ... in the order the text first mentions them; interning a name of
\* the table again returns its id and leaves the table as it is, and every
\* stored instruction's ids are those of the names it was written with.
C11_Interning ==
    LET names == symtable.symbols
    IN /\ \A i, j \in 1..Len(names) : names[i] = names[j] => i = j
       /\ Len(names) >= 2
       /\ names[syminit + 1] = INIT_NAME /\ names[symhalt + 1] = HALT_NAME
       /\ names = FirstSeen(interned, <<INIT_NAME, HALT_NAME>>)
       /\ \A i \in 1..Len(names) :
            LET r == symtable_insert(symtable, names[i])
            IN r.res = 0 /\ r.sid = i - 1 /\ r.tab = symtable
       /\ LET r == symtable_insert(symtable, FreshName)
          IN /\ r.res = 0 /\ r.sid = Len(names)
             /\ r.tab.symbols = Append(names, FreshName)
       /\ \A k \in 1..Len(prog) :
            /\ 2 * k <= Len(interned)
            /\ names[prog[k].state_in + 1] = interned[2 * k - 1]
            /\ names[prog[k].state_out + 1] = interned[2 * k]

C11_Witness ==
    /\ pc = "read_tape" /\ Len(prog) = 2
    /\ interned = <<<<66>>, <<65>>, HALT_NAME, <<65>>>>
    /\ symtable.symbols = <<INIT_NAME, HALT_NAME, <<66>>, <<65>>>>
    /\ prog[1].state_in = 2 /\ prog[1].state_out = 3
    /\ prog[2].state_in = symhalt /\ prog[2].state_out = 3

\* the whitespace-separated words of text from index i on, after word cur
RECURSIVE Tokens(_, _, _)
Tokens(text, i, cur) ==
    IF i > Len(text)
    THEN IF cur = << >> THEN << >> ELSE <<cur>>
    ELSE IF text[i] \in {9, 10, 11, 12, 13, 32}
         THEN (IF cur = << >> THEN << >> ELSE <<cur>>) \o Tokens(text, i + 1, << >>)
         ELSE Tokens(text, i + 1, Append(cur, text[i]))

Words(text) == Tokens(text, 1, << >>)

\* the text has no comment of either kind
NoSlash(text) == \A i \in 1..Len(text) : text[i] # SLASH

\* mill_parse_program has just returned; prog, symtable and diag keep the
\* values they have here for the rest of main
ParseOver == pc # "parse" /\ phases = <<"parse">>

\* C12 - parsed instructions are well-formed: every stored instruction has
\* move L or R and state ids below the size of the symbol table, however its
\* line ended; in a text without comments the fifth word of every
\* instruction is its move, and when it is not L or R the parse fails with
\* that instruction and all after it not stored; a run of a parsed program
\* never ends InvalidHeadMove.
C12_WellFormed ==
    /\ \A k \in 1..Len(prog) :
            /\ prog[k].move \in {HeadMove_left, HeadMove_right}
            /\ prog[k].state_in < Len(symtable.symbols)
            /\ prog[k].state_out < Len(symtable.symbols)
    /\ (ParseOver /\ NoSlash(prog_file)) =>
            LET w == Words(prog_file)
            IN \A k \in 1..(Len(w) \div 5) :
                    IF w[5 * k] \in {<<HeadMove_left>>, <<HeadMove_right>>}
                    THEN k <= Len(prog) => prog[k].move = w[5 * k][1]
                    ELSE /\ Len(prog) < k /\ res # 0 /\ pc = "exit"
                         /\ Len(prog) = k - 1 =>
                                diag = "invalid move instruction"
    /\ outcome # "InvalidHeadMove"

\* two instructions, one ended by blanks and a newline, one by the end of
\* the text, and the run of them
C12_Witness ==
    /\ pc = "exit" /\ outcome = "Halted" /\ Len(prog) = 2
    /\ NoSlash(prog_file) /\ Len(Words(prog_file)) = 10
    /\ prog_file[Len(prog_file)] = HeadMove_right
    /\ prog[1].move = HeadMove_right /\ prog[2].move = HeadMove_right

\* reached as well: a move that is neither L nor R
C12_RejectReached ==
    /\ pc = "exit" /\ diag = "invalid move instruction" /\ NoSlash(prog_file)
    /\ Len(prog) = 1 /\ Len(Words(prog_file)) = 10

\* the lines of text from index i on, after the unfinished line cur; a line
\* keeps its newline
RECURSIVE LinesFrom(_, _, _)
LinesFrom(text, i, cur) ==
    IF i > Len(text)
    THEN IF cur = << >> THEN << >> ELSE <<cur>>
    ELSE IF text[i] = NL
         THEN <<Append(cur, NL)>> \o LinesFrom(text, i + 1, << >>)
         ELSE LinesFrom(text, i + 1, Append(cur, text[i]))

Lines(text) == LinesFrom(text, 1, << >>)

\* where in a line a // follows something that is not whitespace: the index
\* of the first such //, 0 when there is none
CommentAt(line) ==
    LET at == {i \in 1..(Len(line) - 1) :
                    /\ line[i] = SLASH /\ line[i + 1] = SLASH
                    /\ Words(SubSeq(line, 1, i - 1)) # << >>}
    IN IF at = {} THEN 0 ELSE CHOOSE i \in at : \A j \in at : i <= j

\* the line without its trailing comment
StripLine(line) ==
    IF CommentAt(line) = 0 THEN line
    ELSE SubSeq(line, 1, CommentAt(line) - 1)
         \o (IF line[Len(line)] = NL THEN <<NL>> ELSE << >>)

RECURSIVE MapStrip(_)
MapStrip(ls) ==
    IF ls = << >> THEN << >> ELSE StripLine(Head(ls)) \o MapStrip(Tail(ls))

StripTrailing(text) == MapStrip(Lines(text))

\* every trailing comment of the text follows the fifth word of its line
CommentsAfterMove(text) ==
    \A n \in 1..Len(Lines(text)) :
        LET line == Lines(text)[n]
        IN CommentAt(line) # 0 =>
                Len(Words(SubSeq(line, 1, CommentAt(line) - 1))) = 5

IsMoveWord(w) == w \in {<<HeadMove_left>>, <<HeadMove_right>>}

\* C13 - trailing comment: a // comment after the move, after whitespace or
\* glued to the move, is read to the end of its line and the text parses to
\* what it parses to without the comment (so a glued comment after a move
\* that is not L or R is an invalid move); a sixth word after a valid move
\* that does not start a // comment is an unexpected token.
C13_TrailingComment ==
    /\ (ParseOver /\ CommentsAfterMove(prog_file)) =>
            LET ref == mill_parse_program(StripTrailing(prog_file))
            IN /\ prog = ref.prog /\ symtable = ref.tab /\ diag = ref.diag
               /\ res = ref.res
               /\ \A n \in 1..Len(Lines(prog_file)) :
                    LET line == Lines(prog_file)[n]
                        w == Words(StripLine(line))
                    IN (/\ CommentAt(line) # 0 /\ ~IsMoveWord(w[5])
                        /\ Len(w[2]) = 1 /\ Len(w[4]) = 1) =>
                            /\ diag = "invalid move instruction"
                            /\ res = -1 /\ pc = "exit"
    /\ ParseOver =>
            \A n \in 1..Len(Lines(prog_file)) :
                LET w == Words(Lines(prog_file)[n])
                IN (/\ Len(w) >= 6 /\ IsMoveWord(w[5])
                    /\ ~(Len(w[6]) >= 2 /\ w[6][1] = SLASH /\ w[6][2] = SLASH)) =>
                        /\ diag = "unexpected token"
                        /\ res = -1 /\ pc = "exit"

\* both kinds of trailing comment, each on a stored instruction
C13_Witness ==
    /\ pc = "read_tape" /\ Len(prog) = 2
    /\ prog[1].move = HeadMove_right /\ prog[2].move = HeadMove_left
    /\ CommentsAfterMove(prog_file)
    /\ Len(Lines(prog_file)) = 2
    /\ CommentAt(Lines(prog_file)[1]) = 17
    /\ CommentAt(Lines(prog_file)[2]) = 13

\* reached as well: a glued comment after a move that is not L or R
C13_GluedRejectReached ==
    /\ pc = "exit" /\ diag = "invalid move instruction"
    /\ CommentsAfterMove(prog_file) /\ prog_file # StripTrailing(prog_file)

\* reached as well: a word after the move that is no comment
C13_UnexpectedReached ==
    /\ pc = "exit" /\ diag = "unexpected token"
    /\ \E n \in 1..Len(Lines(prog_file)) : Len(Words(Lines(prog_file)[n])) >= 6

\* the first word of the line starts with //
IsCommentLine(line) ==
    LET w == Words(line)
    IN w # << >> /\ Len(w[1]) >= 2 /\ w[1][1] = SLASH /\ w[1][2] = SLASH

RECURSIVE DropComments(_)
DropComments(ls) ==
    IF ls = << >> THEN << >>
    ELSE (IF IsCommentLine(Head(ls)) THEN << >> ELSE Head(ls))
         \o DropComments(Tail(ls))

\* the text without its full-line comments
StripCommentLines(text) == DropComments(Lines(text))

\* the text without comments of either kind
Plain(text) == StripTrailing(StripCommentLines(text))

\* every full-line comment stands between instructions: the words before it
\* are whole groups of five
CommentLinesBetween(text) ==
    \A n \in 1..Len(Lines(text)) :
        IsCommentLine(Lines(text)[n]) =>
            Len(Words(Plain(Concat(SubSeq(Lines(text), 1, n - 1))))) % 5 = 0

\* words 5k-4 .. 5k are an instruction of the grammar
GroupValid(w, k) ==
    Len(w[5 * k - 3]) = 1 /\ Len(w[5 * k - 1]) = 1 /\ IsMoveWord(w[5 * k])

\* the instruction the grammar reads in words 5k-4 .. 5k, by the ids of tab
InstrOf(w, k, tab) ==
    LET id(name) == CHOOSE i \in 0..(Len(tab.symbols) - 1) :
                        tab.symbols[i + 1] = name
        sym(word) == IF word = <<UNDERSCORE>> THEN NUL ELSE word[1]
    IN [state_in |-> id(w[5 * k - 4]), char_in |-> sym(w[5 * k - 3]),
        state_out |-> id(w[5 * k - 2]), char_out |-> sym(w[5 * k - 1]),
        move |-> w[5 * k][1]]

\* C14 - end of input in the parser: when the text ends before any word of
\* an instruction (after blank lines, in or after a full-line comment) the
\* parse ends cleanly with the instructions read so far; when it ends right
\* after a valid move, its trailing blanks or its comment, that instruction
\* is stored as if a newline followed; when it ends anywhere else in an
\* instruction the parse fails and that instruction is not stored.
C14_EndOfInput ==
    /\ (ParseOver /\ CommentsAfterMove(prog_file)
                  /\ CommentLinesBetween(prog_file)) =>
            LET w == Words(Plain(prog_file))
                n == Len(w) \div 5
                sound == n <= MILL_INSTR_MAX /\ \A k \in 1..n : GroupValid(w, k)
            IN /\ Len(w) % 5 # 0 => (res = -1 /\ pc = "exit" /\ Len(prog) <= n)
               /\ \A k \in 1..n :
                    ~GroupValid(w, k) => (res = -1 /\ pc = "exit" /\ Len(prog) < k)
               /\ (/\ Len(w) % 5 # 0 /\ sound
                   /\ \A j \in (5 * n + 1)..Len(w) :
                        j % 5 \in {2, 4} => Len(w[j]) = 1
                   /\ \A m \in 1..Len(Lines(Plain(prog_file))) :
                        Len(Words(Lines(Plain(prog_file))[m])) <= 5) =>
                    /\ Len(prog) = n
                    /\ diag = "expecting a token"
               /\ (Len(w) % 5 = 0 /\ sound) =>
                    /\ res = 0 /\ pc = "read_tape" /\ diag = "none"
                    /\ prog_off = Len(prog_file)
                    /\ Len(prog) = n
               /\ sound => \A k \in 1..Len(prog) : prog[k] = InstrOf(w, k, symtable)
    /\ ParseOver =>
            LET ref == mill_parse_program(Append(prog_file, NL))
            IN res = ref.res /\ prog = ref.prog /\ diag = ref.diag

\* the text ends right after the move of its second instruction
C14_Witness ==
    /\ pc = "read_tape" /\ Len(prog) = 2 /\ NoSlash(prog_file)
    /\ prog_file[Len(prog_file)] = HeadMove_left
    /\ Len(Words(prog_file)) = 10
    /\ prog[2] = [state_in |-> syminit, char_in |-> NUL, state_out |-> syminit,
                  char_out |-> NUL, move |-> HeadMove_left]

\* reached as well: the text ends in a full-line comment
C14_CleanReached ==
    /\ pc = "read_tape" /\ Len(prog) = 1 /\ Len(prog_file) > 0
    /\ prog_file[Len(prog_file)] = 65
    /\ IsCommentLine(Lines(prog_file)[Len(Lines(prog_file))])

\* reached as well: the text ends inside an instruction
C14_FailReached ==
    /\ pc = "exit" /\ diag = "expecting a token" /\ Len(prog) = 1
    /\ NoSlash(prog_file) /\ Len(Words(prog_file)) = 8

\* C15 - full-line comment: a line whose first word starts with // gives no
\* instruction and no name, and the text parses to what it parses to
\* without that line.
C15_FullLineComment ==
    ParseOver =>
        LET ref == mill_parse_program(StripCommentLines(prog_file))
        IN /\ prog = ref.prog /\ symtable = ref.tab
           /\ res = ref.res /\ diag = ref.diag

\* where C15 fails: the comment line stands inside an instruction that is
\* wrapped over several lines, and its // is interned as state_out
C15_InsideReached ==
    /\ ParseOver /\ ~CommentLinesBetween(prog_file)
    /\ res = 0 /\ Len(prog) = 1
    /\ symtable.symbols = <<INIT_NAME, HALT_NAME, <<SLASH, SLASH>>>>
    /\ prog[1] = [state_in |-> syminit, char_in |-> 97, state_out |-> 2,
                  char_out |-> 99, move |-> HeadMove_right]
    /\ mill_parse_program(StripCommentLines(prog_file)).res = -1

\* what does hold: a comment line between instructions changes nothing
C15_BetweenInstructions ==
    (ParseOver /\ CommentLinesBetween(prog_file)) =>
        LET ref == mill_parse_program(StripCommentLines(prog_file))
        IN /\ prog = ref.prog /\ symtable = ref.tab
           /\ res = ref.res /\ diag = ref.diag

\* reached as well: a comment line between two stored instructions
C15_BetweenReached ==
    /\ pc = "read_tape" /\ Len(prog) = 2 /\ CommentLinesBetween(prog_file)
    /\ Len(Lines(prog_file)) = 3 /\ IsCommentLine(Lines(prog_file)[2])
    /\ symtable.symbols = <<INIT_NAME, HALT_NAME>>

\* C16 - instruction limit: the number of stored instructions never passes
\* MILL_INSTR_MAX; a text of exactly that many instructions parses, all of
\* them stored in the order of the text; the parse fails with "too many
\* instructions" as soon as one more has been read, with nothing after it
\* read and the stored instructions as they were.
C16_State ==
    /\ Len(prog) <= MILL_INSTR_MAX
    /\ diag = "too many instructions" =>
            (res = 1 /\ pc = "exit" /\ Len(prog) = MILL_INSTR_MAX)
    /\ (ParseOver /\ CommentsAfterMove(prog_file)
                  /\ CommentLinesBetween(prog_file)) =>
            LET w == Words(Plain(prog_file))
                n == Len(w) \div 5
            IN (Len(w) % 5 = 0 /\ \A k \in 1..n : GroupValid(w, k)) =>
                    /\ \A k \in 1..Len(prog) : prog[k] = InstrOf(w, k, symtable)
                    /\ n <= MILL_INSTR_MAX =>
                            (res = 0 /\ Len(prog) = n /\ pc = "read_tape")
                    /\ n > MILL_INSTR_MAX =>
                            /\ diag = "too many instructions"
                            /\ Len(interned) = 2 * (MILL_INSTR_MAX + 1)

C16_Step ==
    (diag # "too many instructions" /\ diag' = "too many instructions") =>
        /\ prog' = prog
        /\ mill_parse_instruction(prog_file, prog_off, symtable).n = 1
        /\ prog_off' = mill_parse_instruction(prog_file, prog_off, symtable).off

C16_InstructionLimit == [](C16_State) /\ [][C16_Step]_vars

\* one instruction too many, with a line after it that is not read
C16_Witness ==
    /\ pc = "exit" /\ res = 1 /\ diag = "too many instructions"
    /\ Len(prog) = MILL_INSTR_MAX
    /\ prog_off = Len(prog_file) - 1
    /\ Len(Words(Plain(prog_file))) = 5 * (MILL_INSTR_MAX + 1)

\* reached as well: exactly MILL_INSTR_MAX instructions
C16_ExactReached ==
    /\ pc = "read_tape" /\ res = 0 /\ Len(prog) = MILL_INSTR_MAX
    /\ prog_off = Len(prog_file)

\* the phases of main in their order
AllPhases == <<"parse", "load", "run", "render">>

\* the moves of main from one phase to the next or to its return
PhaseMoves ==
    {<<"parse", "read_tape">>, <<"read_tape", "run">>, <<"run", "print_tape">>,
     <<"parse", "exit">>, <<"read_tape", "exit">>, <<"run", "exit">>,
     <<"print_tape", "exit">>}

\* C18 - phase ordering and abort: parse, load, run and render happen in
\* this order and each at most once; a phase that fails is the last one, and
\* main returns its error; the output is written only by render, and render
\* happens only after a run that ended Halted.
C18_State ==
    /\ phases = SubSeq(AllPhases, 1, Len(phases))
    /\ pc = "parse" => Len(phases) <= 1
    /\ pc = "read_tape" => (phases = SubSeq(AllPhases, 1, 1) /\ res = 0)
    /\ pc = "run" => (Len(phases) \in {2, 3} /\ res = 0)
    /\ pc = "print_tape" => (Len(phases) = 3 /\ res = 0 /\ outcome = "Halted")
    /\ (pc = "exit" /\ res # 0) => (out = << >> /\ Len(phases) < 4)
    /\ (pc = "exit" /\ res = 0) =>
            (phases = AllPhases /\ outcome = "Halted" /\ out # << >>)
    /\ diag # "none" =>
            /\ pc = "exit" /\ res # 0 /\ Len(phases) = 1
            /\ tape_off = 0 /\ buf = EmptyBuf /\ outcome = "None" /\ nexec = 0
    /\ (pc = "exit" /\ Len(phases) = 2) =>
            /\ res = 1 /\ tape_file = << >> /\ outcome = "None" /\ nexec = 0
    /\ outcome \in {"Stalled", "TimedOut", "InvalidHeadMove"} =>
            /\ pc = "exit" /\ res # 0 /\ out = << >> /\ Len(phases) = 3
    /\ out # << >> => (outcome = "Halted" /\ phases = AllPhases)
    /\ pc = "exit" => ~ENABLED NextMain

C18_Step ==
    /\ pc' # pc => <<pc, pc'>> \in PhaseMoves
    /\ Len(phases') \in {Len(phases), Len(phases) + 1}
    /\ out' # out => (pc = "print_tape" /\ outcome = "Halted")

C18_PhaseOrder == [](C18_State) /\ [][C18_Step]_vars

\* all four phases, after a parse of two instructions
C18_Witness ==
    /\ pc = "exit" /\ res = 0 /\ phases = AllPhases /\ out # << >>
    /\ Len(prog) = 2 /\ prog_off = Len(prog_file) /\ nexec >= 1

\* reached as well: a failure of each of the first three phases
C18_ParseFailReached == pc = "exit" /\ phases = <<"parse">> /\ Len(prog) = 1
C18_LoadFailReached == pc = "exit" /\ phases = <<"parse", "load">> /\ Len(prog) = 1
C18_StallReached == pc = "exit" /\ outcome = "Stalled" /\ nexec = 1
C18_TimeoutReached == pc = "exit" /\ outcome = "TimedOut" /\ Len(prog) = 2

\* C20 - HALT is absorbing: the run starts in INIT, which is not HALT, and
\* ends with the step that makes the state HALT, so every step starts in a
\* state other than HALT and no instruction whose state_in is HALT fires,
\* even one that matches the cell under the head when the run halts.
C20_HaltAbsorbing ==
    /\ syminit # symhalt
    /\ pc = "run" => state # symhalt
    /\ StepTaken => h_state # symhalt
    /\ (StepTaken /\ fired # 0) => prog[fired].state_in # symhalt
    /\ (nexec > 0 /\ state = symhalt) =>
            (outcome = "Halted" /\ pc # "run" /\ ~ENABLED RunStep)

\* the run has halted with an instruction for HALT that matches the cell
\* under the head
C20_Witness ==
    /\ outcome = "Halted" /\ state = symhalt
    /\ \E j \in 1..Len(prog) :
            prog[j].state_in = symhalt /\ prog[j].char_in = buf[tape_pos]

\* reached in main as well: the parser stores an instruction for HALT
C20_ParsedReached ==
    /\ pc = "exit" /\ outcome = "Halted" /\ prog_file # << >>
    /\ \E j \in 1..Len(prog) : prog[j].state_in = symhalt

\* C21 - unmatchable tape symbols: no stored instruction has the underscore
\* or a whitespace character as symbol_in (an underscore in the text is
\* stored as the blank); such a cell on the tape was loaded from the tape
\* text, and a step that reads an underscore or the newline kept by load
\* fires nothing and ends the run Stalled; an instruction written with _
\* fires only on a blank cell.
C21_Unmatchable ==
    /\ \A k \in 1..Len(prog) :
            /\ prog[k].char_in \notin {UNDERSCORE, 9, 10, 11, 12, 13, 32}
            /\ prog[k].char_out \notin {UNDERSCORE, 9, 10, 11, 12, 13, 32}
    /\ ParseOver =>
            LET w == Words(Plain(prog_file))
            IN \A k \in 1..Len(prog) :
                    /\ prog[k].char_in = NUL <=> w[5 * k - 3] = <<UNDERSCORE>>
                    /\ prog[k].char_in # NUL => <<prog[k].char_in>> = w[5 * k - 3]
    /\ \A i \in 0..(MILL_TAPE_SIZE - 1) :
            buf[i] \in {UNDERSCORE, NL} =>
                (i < Len(tape_file) /\ tape_file[i + 1] = buf[i])
    /\ (StepTaken /\ c \in {UNDERSCORE, NL}) =>
            /\ fired = 0 /\ outcome = "Stalled" /\ steps = t + 1
            /\ buf[prev] = c /\ pos = prev /\ state = h_state
            /\ pc = "exit" /\ res = -1 /\ out = << >>
    /\ (StepTaken /\ fired # 0 /\ prog[fired].char_in = NUL) => c = NUL

\* the head has moved onto a literal underscore; the state has an
\* instruction written with _, which does not fire
C21_Witness ==
    /\ outcome = "Stalled" /\ c = UNDERSCORE /\ nexec = 1 /\ prev = 1
    /\ tape_file = <<97, UNDERSCORE>>
    /\ \E j \in 1..Len(prog) :
            prog[j].state_in = h_state /\ prog[j].char_in = NUL

\* reached as well: the head on the newline load kept
C21_NewlineReached ==
    /\ outcome = "Stalled" /\ c = NL /\ nexec = 1 /\ prev = 1
    /\ tape_file = <<97, NL>>

\* reached as well: an instruction written with _ fires on a cell never
\* written and then on a cell written blank
C21_BlankReached ==
    /\ StepTaken /\ fired # 0 /\ prog[fired].char_in = NUL
    /\ nexec = 3 /\ prev = 0 /\ c = NUL /\ tape_file[1] = 97

====
